---- MODULE Spec2Model ----
(***************************************************************************)
(* Vicency Cosmetics sales dashboard (src/app.py): the cached loader       *)
(* load_and_clean_data, the sidebar filter widgets, the filter mask, the   *)
(* empty-result stop, the KPI section and the four grouped aggregations.   *)
(* One Streamlit interaction (upload, widget change) reruns the whole      *)
(* script, so every action below is one complete script run.               *)
(***************************************************************************)
EXTENDS Integers, Sequences, FiniteSets, TLC

VARIABLES
    uploaded_file,          \* st.file_uploader value; NoFile is Python's None
    cache,                  \* st.cache_data memo of load_and_clean_data
    df,                     \* the table of the last run (NoDf when the load did not return)
    selected_countries,     \* multiselect "Country"
    selected_products,      \* multiselect "Product"
    selected_sales_persons, \* multiselect "Sales Person"
    date_range,             \* date_input "Date Range": a tuple of 1 or 2 days
    df_filtered,            \* rows kept by the mask of lines 77-83
    status,                 \* how the last script run ended
    steps,                  \* the script sections the last run executed
    total_sales, total_boxes, unique_products, num_sales_persons,
    monthly_sales, country_sales, person_perf, top_products_country,
    hdr_raw,                \* header text handed to the column cleaning
    hdr,                    \* that text after `cleanings` passes of line 22
    cleanings

vars == <<uploaded_file, cache, df, selected_countries, selected_products,
          selected_sales_persons, date_range, df_filtered, status, steps,
          total_sales, total_boxes, unique_products, num_sales_persons,
          monthly_sales, country_sales, person_perf, top_products_country,
          hdr_raw, hdr, cleanings>>

dashVars == <<uploaded_file, cache, df, selected_countries, selected_products,
              selected_sales_persons, date_range, df_filtered, status, steps,
              total_sales, total_boxes, unique_products, num_sales_persons,
              monthly_sales, country_sales, person_perf, top_products_country>>

cleanVars == <<hdr_raw, hdr, cleanings>>

(***************************************************************************)
(* Text.  A Python str is a sequence of one-character strings; characters  *)
(* compare by code point (Printable lists code points 32..126 in order; the *)
(* backtick, which a TLA+ string cannot hold, keeps its place under a name), *)
(* strings lexicographically.                                              *)
(***************************************************************************)
Printable ==
    <<" ", "!", "\"", "#", "$", "%", "&", "'", "(", ")", "*", "+", ",", "-", ".", "/",
      "0", "1", "2", "3", "4", "5", "6", "7", "8", "9", ":", ";", "<", "=", ">", "?",
      "@", "A", "B", "C", "D", "E", "F", "G", "H", "I", "J", "K", "L", "M", "N", "O",
      "P", "Q", "R", "S", "T", "U", "V", "W", "X", "Y", "Z", "[", "\\", "]", "^", "_",
      "<backtick>", "a", "b", "c", "d", "e", "f", "g", "h", "i", "j", "k", "l", "m", "n", "o",
      "p", "q", "r", "s", "t", "u", "v", "w", "x", "y", "z", "{", "|", "}", "~">>

OrdTable == [c \in {Printable[i] : i \in DOMAIN Printable} |->
                31 + CHOOSE i \in DOMAIN Printable : Printable[i] = c]

Ord(c) == OrdTable[c]

RECURSIVE StrLess(_, _)
StrLess(s, t) ==
    IF t = <<>> THEN FALSE
    ELSE IF s = <<>> THEN TRUE
    ELSE IF Head(s) = Head(t) THEN StrLess(Tail(s), Tail(t))
    ELSE Ord(Head(s)) < Ord(Head(t))

RECURSIVE LStrip(_)
LStrip(s) == IF s # <<>> /\ Head(s) = " " THEN LStrip(Tail(s)) ELSE s

RECURSIVE RStrip(_)
RStrip(s) ==
    IF s # <<>> /\ s[Len(s)] = " " THEN RStrip(SubSeq(s, 1, Len(s) - 1)) ELSE s

Strip(s) == RStrip(LStrip(s))

StartsWith(s, old) == Len(s) >= Len(old) /\ SubSeq(s, 1, Len(old)) = old

\* str.replace(old, new): left to right, non-overlapping, one pass.
RECURSIVE Replace(_, _, _)
Replace(s, old, new) ==
    IF s = <<>> THEN <<>>
    ELSE IF StartsWith(s, old)
         THEN new \o Replace(SubSeq(s, Len(old) + 1, Len(s)), old, new)
         ELSE <<Head(s)>> \o Replace(Tail(s), old, new)

CurrencyMarker == <<"(", "$", ")">>

\* line 22 without its strip()
CleanHeaderNoStrip(h) == Replace(Replace(h, <<" ">>, <<"_">>), CurrencyMarker, <<>>)

\* line 22: strip, then replace space by underscore, then remove the literal marker (regex=False)
CleanHeader(h) == Replace(Replace(Strip(h), <<" ">>, <<"_">>), CurrencyMarker, <<>>)

(***************************************************************************)
(* Cells.  A Date cell is the text of a date and time of day, held as its  *)
(* fields <<year, month, day, hour>>; pd.to_datetime keeps all four (a     *)
(* Timestamp), and raises on a text that names no calendar day.            *)
(***************************************************************************)
IsLeap(y) == (y % 4 = 0 /\ y % 100 # 0) \/ y % 400 = 0

DaysInMonth(y, m) ==
    IF m = 2 THEN (IF IsLeap(y) THEN 29 ELSE 28)
    ELSE IF m \in {4, 6, 9, 11} THEN 30 ELSE 31

Parseable(c) ==
    /\ c[2] \in 1..12
    /\ c[3] \in 1..DaysInMonth(c[1], c[2])
    /\ c[4] \in 0..23

\* Timestamp order (lines 81-82 compare Timestamps).
TsLess(a, b) ==
    \/ a[1] < b[1]
    \/ a[1] = b[1] /\ a[2] < b[2]
    \/ a[1] = b[1] /\ a[2] = b[2] /\ a[3] < b[3]
    \/ a[1] = b[1] /\ a[2] = b[2] /\ a[3] = b[3] /\ a[4] < b[4]

TsLeq(a, b) == a = b \/ TsLess(a, b)

\* st.date_input turns a datetime into datetime.date: the time of day is dropped.
DateOf(ts) == <<ts[1], ts[2], ts[3]>>

\* pd.to_datetime(date) of lines 81-82: midnight of that day.
ToTimestamp(day) == <<day[1], day[2], day[3], 0>>

DigitChars == <<"0", "1", "2", "3", "4", "5", "6", "7", "8", "9">>

RECURSIVE ZeroPad(_, _)
ZeroPad(n, width) ==
    IF width = 0 THEN <<>>
    ELSE ZeroPad(n \div 10, width - 1) \o <<DigitChars[(n % 10) + 1]>>

\* df['Date'].dt.to_period('M').astype(str): "YYYY-MM" (line 28).
MonthLabel(ts) == ZeroPad(ts[1], 4) \o <<"-">> \o ZeroPad(ts[2], 2)

(***************************************************************************)
(* Tables.  A file is its header row and its data rows, cell by position;  *)
(* a DataFrame is its column names and its rows.                           *)
(***************************************************************************)
NoFile == [headers |-> <<>>, rows |-> <<>>]
NoDf == [columns |-> <<>>, data |-> <<>>]
NoEntry == [key |-> NoFile, value |-> NoDf]

DateCol == <<"D", "a", "t", "e">>
CountryCol == <<"C", "o", "u", "n", "t", "r", "y">>
ProductCol == <<"P", "r", "o", "d", "u", "c", "t">>
SalesPersonCol == <<"S", "a", "l", "e", "s", "_", "P", "e", "r", "s", "o", "n">>
AmountCol == <<"A", "m", "o", "u", "n", "t", "_">>
BoxesCol == <<"B", "o", "x", "e", "s", "_", "S", "h", "i", "p", "p", "e", "d">>
MonthCol == <<"M", "o", "n", "t", "h">>

Range(f) == {f[i] : i \in DOMAIN f}

HasCol(d, name) == \E i \in DOMAIN d.columns : d.columns[i] = name

ColIndex(d, name) == CHOOSE i \in DOMAIN d.columns : d.columns[i] = name

\* df[name] of one row
Cell(d, row, name) == row[ColIndex(d, name)]

\* df[name] as a column
Column(d, name) == [i \in DOMAIN d.data |-> d.data[i][ColIndex(d, name)]]

(***************************************************************************)
(* load_and_clean_data (lines 14-29).  The result names the exception the  *)
(* call raised, or "" with the returned DataFrame.                         *)
(***************************************************************************)
\* line 25 as errors='coerce' would have it: no raise, the bad cell stays in the table
ToDatetimeCoerce(cells) == [raised |-> "", value |-> cells]

\* line 25: every cell parses, or the call raises
ToDatetime(cells) ==
    IF \A i \in DOMAIN cells : Parseable(cells[i])
    THEN [raised |-> "", value |-> cells]
    ELSE [raised |-> "DateParseError", value |-> <<>>]

load_and_clean_data(file) ==
    LET columns == [i \in DOMAIN file.headers |-> CleanHeader(file.headers[i])]
        raw == [columns |-> columns, data |-> file.rows]
    IN  IF ~HasCol(raw, DateCol)
        THEN [raised |-> "KeyError", value |-> NoDf]
        ELSE LET parsed == ToDatetime(Column(raw, DateCol))
             IN  IF parsed.raised # ""
                 THEN [raised |-> parsed.raised, value |-> NoDf]
                 ELSE [raised |-> "",
                       value |-> [columns |-> columns \o <<MonthCol>>,
                                  data |-> [i \in DOMAIN file.rows |->
                                      file.rows[i] \o <<MonthLabel(parsed.value[i])>>]]]

(***************************************************************************)
(* pandas helpers used by the script.                                      *)
(***************************************************************************)
\* sorted(...): ascending under the given strict order
Sorted(S, less(_, _)) ==
    [i \in 1..Cardinality(S) |->
        CHOOSE x \in S : Cardinality({y \in S : less(y, x)}) = i - 1]

\* sorted(df[name].unique()): the options of a multiselect (lines 52, 58, 64)
Options(d, name) == Sorted(Range(Column(d, name)), StrLess)

\* Series.sum()
RECURSIVE SumSeq(_)
SumSeq(xs) == IF xs = <<>> THEN 0 ELSE Head(xs) + SumSeq(Tail(xs))

\* Series.nunique()
NUnique(xs) == Cardinality(Range(xs))

\* df['Date'].min(), df['Date'].max()
MinTs(d) == LET c == Range(Column(d, DateCol)) IN CHOOSE x \in c : \A y \in c : TsLeq(x, y)
MaxTs(d) == LET c == Range(Column(d, DateCol)) IN CHOOSE x \in c : \A y \in c : TsLeq(y, x)

\* value=(df['Date'].min(), df['Date'].max()) as date_input holds it (lines 68-73)
DefaultDateRange(d) == <<DateOf(MinTs(d)), DateOf(MaxTs(d))>>

\* isin with an empty list read as "no restriction"
IsInOrAll(v, values) == values = {} \/ v \in values

\* Series.isin(values)
IsIn(v, values) == v \in values

\* The boolean mask of lines 78-82 for one row.
Mask(d, row, countries, products, persons, start_date, end_date) ==
    /\ IsIn(Cell(d, row, CountryCol), countries)
    /\ IsIn(Cell(d, row, ProductCol), products)
    /\ IsIn(Cell(d, row, SalesPersonCol), persons)
    /\ TsLeq(ToTimestamp(start_date), Cell(d, row, DateCol))
    /\ TsLeq(Cell(d, row, DateCol), ToTimestamp(end_date))

\* df[mask] (lines 77-83): the rows whose mask is True, in order
FilterRows(d, countries, products, persons, start_date, end_date) ==
    SelectSeq(d.data,
              LAMBDA row : Mask(d, row, countries, products, persons, start_date, end_date))

\* line 85 with the test never true
IsEmptyNever(rows) == FALSE

\* df_filtered.empty (line 85)
IsEmpty(rows) == Len(rows) = 0

\* The rows of one group.
GroupRows(d, rows, name, key) == SelectSeq(rows, LAMBDA row : Cell(d, row, name) = key)

\* groupby(name)[value].sum().reset_index(): one row per key, keys ascending (sort=True)
GroupSum(d, rows, name, value) ==
    LET keys == Sorted({Cell(d, rows[i], name) : i \in DOMAIN rows}, StrLess)
    IN  [k \in DOMAIN keys |->
            [key |-> keys[k],
             sum |-> SumSeq([i \in DOMAIN GroupRows(d, rows, name, keys[k]) |->
                                Cell(d, GroupRows(d, rows, name, keys[k])[i], value)])]]

\* line 112 with groupby(sort=False): keys in order of first appearance
MonthlySalesUnsorted(d, rows) ==
    LET first(i) == \A j \in 1..(i - 1) : Cell(d, rows[j], MonthCol) # Cell(d, rows[i], MonthCol)
        idx == SelectSeq([i \in DOMAIN rows |-> i], first)
    IN  [k \in DOMAIN idx |->
            [key |-> Cell(d, rows[idx[k]], MonthCol),
             sum |-> SumSeq([i \in DOMAIN GroupRows(d, rows, MonthCol, Cell(d, rows[idx[k]], MonthCol)) |->
                        Cell(d, GroupRows(d, rows, MonthCol, Cell(d, rows[idx[k]], MonthCol))[i], AmountCol)])]]

\* line 112
MonthlySales(d, rows) == GroupSum(d, rows, MonthCol, AmountCol)

Arrangements(xs) ==
    {[i \in DOMAIN xs |-> xs[p[i]]] :
        p \in {q \in [DOMAIN xs -> DOMAIN xs] : \A i, j \in DOMAIN xs : i # j => q[i] # q[j]}}

\* Series.sort_values(ascending=False) with the default kind='quicksort', which is
\* not stable: every descending arrangement is a possible result.
SortValuesDescending(xs) ==
    {s \in Arrangements(xs) : \A i, j \in DOMAIN s : i < j => s[i].sum >= s[j].sum}

\* line 127: the results sort_values may give
CountrySales(d, rows) == SortValuesDescending(GroupSum(d, rows, CountryCol, AmountCol))

\* line 145: two sums per sales person
PersonPerf(d, rows) ==
    LET a == GroupSum(d, rows, SalesPersonCol, AmountCol)
        b == GroupSum(d, rows, SalesPersonCol, BoxesCol)
    IN  [k \in DOMAIN a |-> [key |-> a[k].key, amount |-> a[k].sum, boxes |-> b[k].sum]]

PairLess(a, b) == StrLess(a[1], b[1]) \/ (a[1] = b[1] /\ StrLess(a[2], b[2]))

\* line 173: groupby(['Country', 'Product'])['Amount_'].sum().reset_index(),
\* rows ascending by (Country, Product)
CountryProductSums(d, rows) ==
    LET keys == Sorted({<<Cell(d, rows[i], CountryCol), Cell(d, rows[i], ProductCol)>> :
                            i \in DOMAIN rows}, PairLess)
        grp(k) == SelectSeq(rows, LAMBDA row : Cell(d, row, CountryCol) = k[1]
                                                /\ Cell(d, row, ProductCol) = k[2])
    IN  [k \in DOMAIN keys |->
            [country |-> keys[k][1], product |-> keys[k][2],
             sum |-> SumSeq([i \in DOMAIN grp(keys[k]) |-> Cell(d, grp(keys[k])[i], AmountCol)])]]

\* idxmax returning the last label holding the maximum
IdxMaxLast(frame, idx) ==
    CHOOSE i \in idx :
        /\ \A j \in idx : frame[j].sum <= frame[i].sum
        /\ \A j \in idx : frame[j].sum = frame[i].sum => j <= i

\* idxmax over the row labels idx of a frame: the first label holding the maximum
IdxMax(frame, idx) ==
    CHOOSE i \in idx :
        /\ \A j \in idx : frame[j].sum <= frame[i].sum
        /\ \A j \in idx : frame[j].sum = frame[i].sum => i <= j

\* line 174: .loc[ groupby('Country')['Amount_'].idxmax() ], one row per country,
\* countries ascending
TopProductsCountry(d, rows) ==
    LET frame == CountryProductSums(d, rows)
        countries == Sorted({frame[i].country : i \in DOMAIN frame}, StrLess)
    IN  [c \in DOMAIN countries |->
            frame[IdxMax(frame, {i \in DOMAIN frame : frame[i].country = countries[c]})]]

(***************************************************************************)
(* One script run (lines 36-191).  ui names the widget the user has just   *)
(* changed and its new value; every other widget keeps its state when it   *)
(* was drawn by the previous run with the same options and default (the    *)
(* widget's identity), and starts from its default otherwise.              *)
(***************************************************************************)
NoUi == [widget |-> "none", value |-> {}]

\* @st.cache_data (line 14): a hit returns the stored table, a miss calls the
\* function; a call that raises stores nothing.
CachedLoad(file) ==
    IF cache.key = file THEN [raised |-> "", value |-> cache.value]
    ELSE load_and_clean_data(file)

CountriesValue(d, ui) ==
    IF ui.widget = "country" THEN ui.value
    ELSE IF "w_country" \in steps /\ Options(df, CountryCol) = Options(d, CountryCol)
         THEN selected_countries ELSE Range(Options(d, CountryCol))

ProductsValue(d, ui) ==
    IF ui.widget = "product" THEN ui.value
    ELSE IF "w_product" \in steps /\ Options(df, ProductCol) = Options(d, ProductCol)
         THEN selected_products ELSE Range(Options(d, ProductCol))

SalesPersonsValue(d, ui) ==
    IF ui.widget = "person" THEN ui.value
    ELSE IF "w_person" \in steps /\ Options(df, SalesPersonCol) = Options(d, SalesPersonCol)
         THEN selected_sales_persons ELSE Range(Options(d, SalesPersonCol))

DateRangeValue(d, ui) ==
    IF ui.widget = "date" THEN ui.value
    ELSE IF "w_date" \in steps /\ DefaultDateRange(df) = DefaultDateRange(d)
         THEN date_range ELSE DefaultDateRange(d)

Blank ==
    [cache |-> cache, df |-> NoDf, countries |-> {}, products |-> {}, persons |-> {},
     date_range |-> <<>>, filtered |-> <<>>, status |-> "", steps |-> {},
     total_sales |-> 0, total_boxes |-> 0, unique_products |-> 0, num_sales_persons |-> 0,
     monthly |-> <<>>, country |-> {<<>>}, person |-> <<>>, top |-> <<>>]

\* lines 89-191: the KPI section and the charts, on a non-empty df_filtered
Sections(r) ==
    LET d == r.df
        rows == r.filtered
    IN  IF ~HasCol(d, AmountCol) THEN [r EXCEPT !.status = "KeyError"]
        ELSE LET r1 == [r EXCEPT !.total_sales = SumSeq(Column([d EXCEPT !.data = rows], AmountCol)),
                                 !.steps = @ \cup {"total_sales"}]
             IN  IF ~HasCol(d, BoxesCol) THEN [r1 EXCEPT !.status = "KeyError"]
                 ELSE [r1 EXCEPT
                         !.total_boxes = SumSeq(Column([d EXCEPT !.data = rows], BoxesCol)),
                         !.unique_products = NUnique(Column([d EXCEPT !.data = rows], ProductCol)),
                         !.num_sales_persons = NUnique(Column([d EXCEPT !.data = rows], SalesPersonCol)),
                         !.monthly = MonthlySales(d, rows),
                         !.country = CountrySales(d, rows),
                         !.person = PersonPerf(d, rows),
                         !.top = TopProductsCountry(d, rows),
                         !.steps = @ \cup {"total_boxes", "unique_products", "num_sales_persons",
                                           "monthly_sales", "country_sales", "person_perf",
                                           "top_products_country", "raw_data"},
                         !.status = "done"]

\* lines 75-87: unpack the range, filter, stop on an empty result
Filtering(r) ==
    IF Len(r.date_range) # 2 THEN [r EXCEPT !.status = "ValueError"]
    ELSE LET rows == FilterRows(r.df, r.countries, r.products, r.persons,
                                r.date_range[1], r.date_range[2])
             r1 == [r EXCEPT !.filtered = rows, !.steps = @ \cup {"filter"}]
         IN  IF IsEmpty(rows) THEN [r1 EXCEPT !.status = "no_data"]
             ELSE Sections(r1)

\* lines 47-73: the four sidebar widgets, each reading its column
Sidebar(r, ui) ==
    LET d == r.df
    IN  IF ~HasCol(d, CountryCol) THEN [r EXCEPT !.status = "KeyError"]
        ELSE LET r1 == [r EXCEPT !.countries = CountriesValue(d, ui),
                                 !.steps = @ \cup {"w_country"}]
        IN  IF ~HasCol(d, ProductCol) THEN [r1 EXCEPT !.status = "KeyError"]
        ELSE LET r2 == [r1 EXCEPT !.products = ProductsValue(d, ui),
                                  !.steps = @ \cup {"w_product"}]
        IN  IF ~HasCol(d, SalesPersonCol) THEN [r2 EXCEPT !.status = "KeyError"]
        ELSE Filtering([r2 EXCEPT !.persons = SalesPersonsValue(d, ui),
                                   !.date_range = DateRangeValue(d, ui),
                                   !.steps = @ \cup {"w_person", "w_date"}])

\* lines 36-45: the uploader and the cached load
Script(file, ui) ==
    IF file = NoFile THEN [Blank EXCEPT !.status = "awaiting_upload"]
    ELSE LET call == CachedLoad(file)
         IN  IF call.raised # ""
             THEN [Blank EXCEPT !.status = call.raised, !.steps = {"load"}]
             ELSE Sidebar([Blank EXCEPT !.df = call.value,
                                        !.cache = [key |-> file, value |-> call.value],
                                        !.steps = {"load"}], ui)

Run(file, ui) ==
    \E r \in {Script(file, ui)} :
        /\ uploaded_file' = file
        /\ cache' = r.cache
        /\ df' = r.df
        /\ selected_countries' = r.countries
        /\ selected_products' = r.products
        /\ selected_sales_persons' = r.persons
        /\ date_range' = r.date_range
        /\ df_filtered' = r.filtered
        /\ status' = r.status
        /\ steps' = r.steps
        /\ total_sales' = r.total_sales
        /\ total_boxes' = r.total_boxes
        /\ unique_products' = r.unique_products
        /\ num_sales_persons' = r.num_sales_persons
        /\ monthly_sales' = r.monthly
        /\ country_sales' \in r.country
        /\ person_perf' = r.person
        /\ top_products_country' = r.top
        /\ UNCHANGED cleanVars

(***************************************************************************)
(* Inputs: the files a user may upload and the clicks a user may make.     *)
(***************************************************************************)
MaxRows == 2
MaxHeaderLen == 3
MaxCleanings == 2

USA == <<"U", "S", "A">>
UK == <<"U", "K">>
Lipstick == <<"L", "i", "p", "s", "t", "i", "c", "k">>
Mascara == <<"M", "a", "s", "c", "a", "r", "a">>
Ann == <<"A", "n", "n">>
Bob == <<"B", "o", "b">>

\* The header row of a well-formed file: Date, Country, Product, Sales Person,
\* Amount ($), Boxes Shipped.
RawHeaders ==
    <<<<"D", "a", "t", "e">>, <<"C", "o", "u", "n", "t", "r", "y">>, <<"P", "r", "o", "d", "u", "c", "t">>,
      <<"S", "a", "l", "e", "s", " ", "P", "e", "r", "s", "o", "n">>,
      <<"A", "m", "o", "u", "n", "t", " ", "(", "$", ")">>,
      <<"B", "o", "x", "e", "s", " ", "S", "h", "i", "p", "p", "e", "d">>>>

PaddedSalesPerson == <<" ", "S", "a", "l", "e", "s", " ", "P", "e", "r", "s", "o", "n", " ">>
UnderscoredSalesPerson == <<"S", "a", "l", "e", "s", "_", "P", "e", "r", "s", "o", "n">>
UpperSalesPerson == <<"S", "A", "L", "E", "S", " ", "P", "E", "R", "S", "O", "N">>
UpperCanonicalSalesPerson == <<"S", "A", "L", "E", "S", "_", "P", "E", "R", "S", "O", "N">>
PlainAmount == <<"A", "m", "o", "u", "n", "t">>

HeaderRows ==
    {RawHeaders} \cup
    {[RawHeaders EXCEPT ![4] = h] :
        h \in {PaddedSalesPerson, UnderscoredSalesPerson, UpperSalesPerson}} \cup
    {[RawHeaders EXCEPT ![5] = PlainAmount]}

\* Data rows, cells in the order of RawHeaders; one Date cell carries a time of
\* day ("2024-01-05 13:00").
GoodRows ==
    {<< <<2024, 1, 20, 0>>, USA, Lipstick, Ann, 100, 10 >>,
     << <<2024, 1, 5, 13>>, USA, Mascara, Ann, 100, 10 >>,
     << <<2023, 12, 31, 0>>, UK, Mascara, Bob, 200, 20 >>,
     << <<2024, 1, 5, 0>>, UK, Lipstick, Ann, 100, 10 >>}

\* A row whose Date cell is the text "2024-13-05", which names no calendar day.
BadDateRow == << <<2024, 13, 5, 0>>, UK, Mascara, Bob, 200, 20 >>

Tables == UNION {[1..n -> GoodRows \cup {BadDateRow}] : n \in 1..MaxRows}

\* a sequence without its i-th element (i = 0: the sequence itself)
Drop(xs, i) ==
    [k \in 1..(Len(xs) - (IF i = 0 THEN 0 ELSE 1)) |-> IF i = 0 \/ k < i THEN xs[k] ELSE xs[k + 1]]

\* the file with header row h and rows t, column i left out
FileOf(h, t, i) == [headers |-> Drop(h, i), rows |-> [k \in DOMAIN t |-> Drop(t[k], i)]]

\* the days a user clicks in the date picker
PickDays == {DateOf(r[1]) : r \in GoodRows}

HeaderAlphabet == {" ", "_", "(", "$", ")", "A"}

HeaderTexts ==
    UNION {[1..n -> HeaderAlphabet] : n \in 0..MaxHeaderLen}
    \cup Range(RawHeaders)
    \cup {PaddedSalesPerson, UnderscoredSalesPerson, UpperSalesPerson, PlainAmount}
    \cup {DateCol, CountryCol, ProductCol, SalesPersonCol, AmountCol, BoxesCol, MonthCol}

(***************************************************************************)
(* The dashboard session.                                                  *)
(***************************************************************************)
Init ==
    /\ uploaded_file = NoFile
    /\ cache = NoEntry
    /\ df = NoDf
    /\ selected_countries = {}
    /\ selected_products = {}
    /\ selected_sales_persons = {}
    /\ date_range = <<>>
    /\ df_filtered = <<>>
    /\ status = "awaiting_upload"
    /\ steps = {}
    /\ total_sales = 0
    /\ total_boxes = 0
    /\ unique_products = 0
    /\ num_sales_persons = 0
    /\ monthly_sales = <<>>
    /\ country_sales = <<>>
    /\ person_perf = <<>>
    /\ top_products_country = <<>>
    /\ hdr_raw = <<>>
    /\ hdr = <<>>
    /\ cleanings = 0

\* the header rows and missing columns a table is uploaded with
Layouts(t) ==
    IF Len(t) = 1 /\ uploaded_file = NoFile
    THEN {<<h, 0>> : h \in HeaderRows} \cup {<<RawHeaders, i>> : i \in 1..Len(RawHeaders)}
    ELSE {<<RawHeaders, 0>>}

\* The user chooses a file in the uploader (line 36).  A file put in place of
\* another without removing it first is drawn from the well-formed one-row files.
Upload ==
    \E t \in (IF uploaded_file = NoFile THEN Tables ELSE [1..1 -> GoodRows \cup {BadDateRow}]) :
        \E l \in Layouts(t) :
            /\ FileOf(l[1], t, l[2]) # uploaded_file
            /\ Run(FileOf(l[1], t, l[2]), NoUi)

\* The user removes the file from the uploader.
RemoveFile ==
    /\ uploaded_file # NoFile
    /\ Run(NoFile, NoUi)

Toggle(selection, c) == IF c \in selection THEN selection \ {c} ELSE selection \cup {c}

\* The user adds or removes one option of a multiselect (lines 50-66).
ToggleCountry ==
    /\ "w_country" \in steps
    /\ \E c \in Range(Options(df, CountryCol)) :
        Run(uploaded_file, [widget |-> "country", value |-> Toggle(selected_countries, c)])

ToggleProduct ==
    /\ "w_product" \in steps
    /\ \E c \in Range(Options(df, ProductCol)) :
        Run(uploaded_file, [widget |-> "product", value |-> Toggle(selected_products, c)])

ToggleSalesPerson ==
    /\ "w_person" \in steps
    /\ \E c \in Range(Options(df, SalesPersonCol)) :
        Run(uploaded_file, [widget |-> "person", value |-> Toggle(selected_sales_persons, c)])

\* The user clicks a day of the range picker (lines 68-73): the first click gives
\* a one-day tuple, the second completes the range.  min_value and max_value
\* limit the days offered.
PickDate ==
    /\ "w_date" \in steps
    /\ \E day \in PickDays :
        /\ TsLeq(ToTimestamp(DateOf(MinTs(df))), ToTimestamp(day))
        /\ TsLeq(ToTimestamp(day), ToTimestamp(DateOf(MaxTs(df))))
        /\ Run(uploaded_file,
               [widget |-> "date",
                value |-> IF Len(date_range) = 1 THEN <<date_range[1], day>> ELSE <<day>>])

Next == Upload \/ RemoveFile \/ ToggleCountry \/ ToggleProduct \/ ToggleSalesPerson \/ PickDate

Spec == Init /\ [][Next]_vars

(***************************************************************************)
(* The column cleaning of line 22 on its own, applied to header texts.     *)
(***************************************************************************)
InitClean ==
    /\ uploaded_file = NoFile
    /\ cache = NoEntry
    /\ df = NoDf
    /\ selected_countries = {}
    /\ selected_products = {}
    /\ selected_sales_persons = {}
    /\ date_range = <<>>
    /\ df_filtered = <<>>
    /\ status = "awaiting_upload"
    /\ steps = {}
    /\ total_sales = 0
    /\ total_boxes = 0
    /\ unique_products = 0
    /\ num_sales_persons = 0
    /\ monthly_sales = <<>>
    /\ country_sales = <<>>
    /\ person_perf = <<>>
    /\ top_products_country = <<>>
    /\ hdr_raw \in HeaderTexts
    /\ hdr = hdr_raw
    /\ cleanings = 0

Clean ==
    /\ cleanings < MaxCleanings
    /\ hdr' = CleanHeader(hdr)
    /\ cleanings' = cleanings + 1
    /\ UNCHANGED hdr_raw
    /\ UNCHANGED dashVars

NextClean == Clean

SpecClean == InitClean /\ [][NextClean]_vars

(***************************************************************************)
(* What the claims speak of, stated apart from the operators above.        *)
(***************************************************************************)
RECURSIVE SetSum(_, _)
SetSum(I, f) ==
    IF I = {} THEN 0
    ELSE LET i == CHOOSE j \in I : TRUE IN f[i] + SetSum(I \ {i}, f)

\* calendar days in calendar order
DayLeq(a, b) ==
    \/ a[1] < b[1]
    \/ a[1] = b[1] /\ a[2] < b[2]
    \/ a[1] = b[1] /\ a[2] = b[2] /\ a[3] <= b[3]

\* the record fields of a row of the loaded table
CountryOf(row) == Cell(df, row, CountryCol)
ProductOf(row) == Cell(df, row, ProductCol)
PersonOf(row) == Cell(df, row, SalesPersonCol)
CalendarDayOf(row) == DateOf(Cell(df, row, DateCol))
AmountOf(row) == Cell(df, row, AmountCol)
BoxesOf(row) == Cell(df, row, BoxesCol)

\* the four predicates of the Filter Engine for one record
Satisfies(row) ==
    /\ CountryOf(row) \in selected_countries
    /\ ProductOf(row) \in selected_products
    /\ PersonOf(row) \in selected_sales_persons
    /\ DayLeq(date_range[1], CalendarDayOf(row))
    /\ DayLeq(CalendarDayOf(row), date_range[2])

KpiAndChartSteps ==
    {"total_sales", "total_boxes", "unique_products", "num_sales_persons",
     "monthly_sales", "country_sales", "person_perf", "top_products_country"}

RequiredCols == {DateCol, CountryCol, ProductCol, SalesPersonCol, AmountCol, BoxesCol}

CleanedHeaders(file) == {CleanHeader(file.headers[i]) : i \in DOMAIN file.headers}

\* the file is a well-formed one with one of the six required columns left out
LacksRequiredColumn(file) ==
    /\ \E i \in 1..Len(RawHeaders) : file.headers = Drop(RawHeaders, i)
    /\ RequiredCols \ CleanedHeaders(file) # {}

DateCells(file) ==
    {file.rows[k][i] : k \in DOMAIN file.rows,
                       i \in {j \in DOMAIN file.headers : CleanHeader(file.headers[j]) = DateCol}}

HasUnparseableDate(file) == \E c \in DateCells(file) : ~Parseable(c)

FullSelection ==
    /\ selected_countries = {CountryOf(df.data[i]) : i \in DOMAIN df.data}
    /\ selected_products = {ProductOf(df.data[i]) : i \in DOMAIN df.data}
    /\ selected_sales_persons = {PersonOf(df.data[i]) : i \in DOMAIN df.data}
    /\ Len(date_range) = 2
    /\ \A i \in DOMAIN df.data : DayLeq(date_range[1], CalendarDayOf(df.data[i]))
    /\ \A i \in DOMAIN df.data : DayLeq(CalendarDayOf(df.data[i]), date_range[2])
    /\ \E i \in DOMAIN df.data : date_range[1] = CalendarDayOf(df.data[i])
    /\ \E i \in DOMAIN df.data : date_range[2] = CalendarDayOf(df.data[i])

\* C1: whenever a run has filtered, df_filtered is exactly the subsequence of the
\* loaded table's records whose country, product and sales person are selected and
\* whose calendar date lies in [start, end], both bounds inclusive (empty, with no
\* error, when start > end).
C1_FilterIsExact ==
    "filter" \in steps => df_filtered = SelectSeq(df.data, Satisfies)

\* C2: for every selection with a date interval, if one of the three category
\* selections is empty the run filters to the empty table and ends in the "no data"
\* state, whatever the other selections and the interval are.
C2_EmptySelectionGivesNoData ==
    ( /\ "w_date" \in steps
      /\ Len(date_range) = 2
      /\ selected_countries = {} \/ selected_products = {} \/ selected_sales_persons = {} )
    => /\ "filter" \in steps
       /\ df_filtered = <<>>
       /\ status = "no_data"
       /\ steps \cap KpiAndChartSteps = {}

C2_Witness ==
    /\ status = "no_data"
    /\ selected_products = {}
    /\ selected_countries = {CountryOf(df.data[i]) : i \in DOMAIN df.data}
    /\ selected_sales_persons = {PersonOf(df.data[i]) : i \in DOMAIN df.data}
    /\ date_range = DefaultDateRange(df)
    /\ \E i \in DOMAIN df.data : Cell(df, df.data[i], DateCol)[4] = 0

\* C3: a run whose filtered table is empty ends in the "no data" state and executes
\* no KPI and no chart step; any KPI or chart step that runs has a non-empty
\* filtered table before it.
C3_EmptyResultStopsTheRun ==
    /\ ("filter" \in steps /\ df_filtered = <<>>)
          => (status = "no_data" /\ steps \cap KpiAndChartSteps = {})
    /\ steps \cap KpiAndChartSteps # {} => ("filter" \in steps /\ df_filtered # <<>>)
    /\ status = "no_data" <=> ("filter" \in steps /\ df_filtered = <<>>)

C3_Witness ==
    /\ status = "no_data"
    /\ "filter" \in steps
    /\ df_filtered = <<>>
    /\ selected_countries # {} /\ selected_products # {} /\ selected_sales_persons # {}

\* C4: an uploaded file with a Date column holding an unparseable value fails to
\* load as a whole: the run ends with the date-parse error, no table is returned
\* or cached for the file, no widget, filter, KPI or chart step runs, and the
\* session goes on (another file can be uploaded).
C4_BadDateAbortsTheLoad ==
    (uploaded_file # NoFile /\ HasUnparseableDate(uploaded_file))
    => /\ status = "DateParseError"
       /\ df = NoDf
       /\ cache.key # uploaded_file
       /\ steps = {"load"}
       /\ df_filtered = <<>>
       /\ \E t \in [1..1 -> GoodRows] : Script(FileOf(RawHeaders, t, 0), NoUi).status = "done"

C4_Witness ==
    /\ status = "DateParseError"
    /\ \E c \in DateCells(uploaded_file) : Parseable(c)
    /\ cache.key # NoFile

\* C5: a file lacking a required column is rejected by the load itself: the load
\* raises, returns and caches no table, and no widget, filter, KPI or chart step
\* runs on such a file.
C5_MissingColumnRejectedByLoad ==
    LacksRequiredColumn(uploaded_file)
    => /\ status \in {"KeyError", "DateParseError"}
       /\ df = NoDf
       /\ cache.key # uploaded_file
       /\ steps = {"load"}

\* C6: a run on a non-empty table with the full selection (every country, product
\* and sales person of the table, the interval from its first to its last day, which
\* are the defaults) filters to the whole table, and its KPIs are those of the whole
\* table, also after earlier runs with other selections.
C6_FullSelectionIsIdentity ==
    ("w_date" \in steps /\ FullSelection)
    => /\ "filter" \in steps
       /\ df_filtered = df.data
       /\ "total_sales" \in steps =>
            total_sales = SetSum(DOMAIN df.data, [i \in DOMAIN df.data |-> AmountOf(df.data[i])])
       /\ "num_sales_persons" \in steps =>
            /\ total_boxes = SetSum(DOMAIN df.data, [i \in DOMAIN df.data |-> BoxesOf(df.data[i])])
            /\ unique_products = Cardinality({ProductOf(df.data[i]) : i \in DOMAIN df.data})
            /\ num_sales_persons = Cardinality({PersonOf(df.data[i]) : i \in DOMAIN df.data})

\* the year and month of a record, and their calendar order
YearMonthOf(row) == <<Cell(df, row, DateCol)[1], Cell(df, row, DateCol)[2]>>
YearMonthBefore(a, b) == a[1] < b[1] \/ (a[1] = b[1] /\ a[2] < b[2])
InMonth(label) == {i \in DOMAIN df_filtered : MonthLabel(Cell(df, df_filtered[i], DateCol)) = label}

\* C7: the monthly series of a non-empty filtered table has exactly one entry per
\* month present in it, in strictly ascending order of the YYYY-MM label (which is
\* the calendar order), each entry holds the sum of amount over the records of its
\* month, and the entries sum up to the KPI total_sales.
C7_MonthlySeries ==
    "monthly_sales" \in steps =>
        /\ {monthly_sales[k].key : k \in DOMAIN monthly_sales}
              = {MonthLabel(Cell(df, df_filtered[i], DateCol)) : i \in DOMAIN df_filtered}
        /\ \A j, k \in DOMAIN monthly_sales :
              j < k => /\ StrLess(monthly_sales[j].key, monthly_sales[k].key)
                       /\ \A a \in InMonth(monthly_sales[j].key), b \in InMonth(monthly_sales[k].key) :
                              YearMonthBefore(YearMonthOf(df_filtered[a]), YearMonthOf(df_filtered[b]))
        /\ \A k \in DOMAIN monthly_sales :
              monthly_sales[k].sum =
                  SetSum(InMonth(monthly_sales[k].key),
                         [i \in DOMAIN df_filtered |-> AmountOf(df_filtered[i])])
        /\ SetSum(DOMAIN monthly_sales, [k \in DOMAIN monthly_sales |-> monthly_sales[k].sum])
              = total_sales
        /\ total_sales = SetSum(DOMAIN df_filtered, [i \in DOMAIN df_filtered |-> AmountOf(df_filtered[i])])

C7_Witness ==
    /\ status = "done"
    /\ Len(monthly_sales) = 2
    /\ YearMonthBefore(YearMonthOf(df_filtered[2]), YearMonthOf(df_filtered[1]))
    /\ YearMonthOf(df_filtered[2])[1] < YearMonthOf(df_filtered[1])[1]
    /\ YearMonthOf(df_filtered[2])[2] > YearMonthOf(df_filtered[1])[2]

CountryTotal(c) ==
    SetSum({i \in DOMAIN df_filtered : CountryOf(df_filtered[i]) = c},
           [i \in DOMAIN df_filtered |-> AmountOf(df_filtered[i])])

\* C8: the country series of a non-empty filtered table has one entry per country
\* with that country's sum of amount, in descending order of the sum, and of two
\* countries with equal sums the one with the smaller label comes first.
C8_CountrySeriesOrder ==
    "country_sales" \in steps =>
        /\ {country_sales[k].key : k \in DOMAIN country_sales}
              = {CountryOf(df_filtered[i]) : i \in DOMAIN df_filtered}
        /\ \A k \in DOMAIN country_sales : country_sales[k].sum = CountryTotal(country_sales[k].key)
        /\ \A j, k \in DOMAIN country_sales :
              j < k => \/ country_sales[j].sum > country_sales[k].sum
                       \/ /\ country_sales[j].sum = country_sales[k].sum
                          /\ StrLess(country_sales[j].key, country_sales[k].key)

ProductTotal(c, p) ==
    SetSum({i \in DOMAIN df_filtered : CountryOf(df_filtered[i]) = c /\ ProductOf(df_filtered[i]) = p},
           [i \in DOMAIN df_filtered |-> AmountOf(df_filtered[i])])

ProductsIn(c) == {ProductOf(df_filtered[i]) : i \in {j \in DOMAIN df_filtered : CountryOf(df_filtered[j]) = c}}

\* C9: top-product-per-country of a non-empty filtered table has exactly one entry
\* for each country of the table; its total is the largest summed amount among the
\* country's products and its product is the lexicographically smallest of the
\* products reaching that total; the rows' order does not change the result.
C9_TopProductPerCountry ==
    "top_products_country" \in steps =>
        /\ {top_products_country[k].country : k \in DOMAIN top_products_country}
              = {CountryOf(df_filtered[i]) : i \in DOMAIN df_filtered}
        /\ \A j, k \in DOMAIN top_products_country :
              j # k => top_products_country[j].country # top_products_country[k].country
        /\ \A k \in DOMAIN top_products_country :
              LET e == top_products_country[k]
              IN  /\ e.product \in ProductsIn(e.country)
                  /\ e.sum = ProductTotal(e.country, e.product)
                  /\ \A p \in ProductsIn(e.country) :
                        /\ ProductTotal(e.country, p) <= e.sum
                        /\ ProductTotal(e.country, p) = e.sum => (p = e.product \/ StrLess(e.product, p))
        /\ \A rows \in Arrangements(df_filtered) : TopProductsCountry(df, rows) = top_products_country

C9_Witness ==
    /\ status = "done"
    /\ \E k \in DOMAIN top_products_country :
          \E p \in ProductsIn(top_products_country[k].country) :
              /\ p # top_products_country[k].product
              /\ ProductTotal(top_products_country[k].country, p) = top_products_country[k].sum
    /\ ProductOf(df_filtered[1]) = Mascara

\* C10 as stated: the cleaning maps " Sales Person ", "Sales_Person" and
\* "SALES PERSON" all to Sales_Person, maps "Amount ($)" to Amount_, and leaves a
\* canonical header unchanged.
C10_AllVariantsToOneName ==
    cleanings >= 1 =>
        /\ hdr_raw \in {PaddedSalesPerson, UnderscoredSalesPerson, UpperSalesPerson} => hdr = SalesPersonCol
        /\ hdr_raw = RawHeaders[5] => hdr = AmountCol
        /\ hdr_raw \in RequiredCols => hdr = hdr_raw

\* C10 amended: the cleaning maps " Sales Person ", "Sales Person" and
\* "Sales_Person" to Sales_Person, keeps the letter case and so maps "SALES PERSON"
\* to SALES_PERSON, maps "Amount ($)" to Amount_, and leaves a canonical header
\* unchanged however often it is applied.
C10_CleaningKeepsCase ==
    cleanings >= 1 =>
        /\ hdr_raw \in {PaddedSalesPerson, UnderscoredSalesPerson, RawHeaders[4]} => hdr = SalesPersonCol
        /\ hdr_raw = UpperSalesPerson => (hdr = UpperCanonicalSalesPerson /\ hdr # SalesPersonCol)
        /\ hdr_raw = RawHeaders[5] => hdr = AmountCol
        /\ hdr_raw \in RequiredCols => hdr = hdr_raw

C10_Witness ==
    /\ cleanings = MaxCleanings
    /\ hdr_raw = PaddedSalesPerson
    /\ hdr = SalesPersonCol

====
